---- MODULE Spec2Model ----
(***************************************************************************)
(* OpenSquirrel core: the IR node model (opensquirrel/ir.py), the default  *)
(* measurement generators (opensquirrel/default_measurements.py) and the   *)
(* A-B-A decomposition engine (opensquirrel/decomposer/aba_decomposer.py). *)
(*                                                                         *)
(* Real numbers are fixed-point integers: the integer v stands for the     *)
(* real v / Scale, angles are in units of 1/Scale radian, and every        *)
(* product, quotient, root and trigonometric function is computed on that  *)
(* grid (rounded to the nearest grid point).  The arithmetic noise of the  *)
(* grid is about 1e-2 after an arc cosine near +-1, where Python's floats  *)
(* have about 1e-8; the tolerance ATOL is scaled by the same factor, so    *)
(* that, as in the program, it lies well above the arithmetic noise and    *)
(* well below every difference the code branches on.                       *)
(***************************************************************************)
EXTENDS Integers, Sequences, FiniteSets, TLC

VARIABLES pc, arg, ret, visited, statements

vars == <<pc, arg, ret, visited, statements>>

(***************************************************************************)
(* Fixed-point arithmetic                                                  *)
(***************************************************************************)
Scale == 10 ^ 4

\* math.pi, in units of 1/Scale radian
PI == 31416

HALF_PI == PI \div 2

TWO_PI == 2 * PI

\* opensquirrel.common.ATOL, scaled to the grid (0.1)
ATOL == 1000

\* Largest magnitude a product may take before it is rescaled (32-bit integers)
Lim == 10 ^ 9

\* F(v), with v evaluated once, before F is applied (a local variable of the code)
Let(F(_), v) == CHOOSE r \in {F(x) : x \in {v}} : TRUE

Abs(x) == IF x < 0 THEN -x ELSE x

Sign(x) == IF x < 0 THEN -1 ELSE 1

\* a / b rounded to the nearest integer, b > 0
RDiv(a, b) == (2 * a + b) \div (2 * b)

\* a / b rounded to the nearest integer, b # 0
SDiv(a, b) == IF b > 0 THEN RDiv(a, b) ELSE -RDiv(a, -b)

\* the float product a * b
Mul(a, b) ==
    IF a = 0 \/ b = 0 THEN 0
    ELSE IF Abs(a) <= Lim \div Abs(b) THEN RDiv(a * b, Scale)
    ELSE IF Abs(a) >= Abs(b) THEN RDiv(a, Scale) * b
    ELSE a * RDiv(b, Scale)

\* the float quotient a / b, b # 0
Div(a, b) ==
    IF Abs(a) <= Lim \div Scale THEN SDiv(a * Scale, b)
    ELSE SDiv(a, b) * Scale

\* x / 2 for an angle x (rounded towards zero)
Half(x) == IF x >= 0 THEN x \div 2 ELSE -((-x) \div 2)

RECURSIVE ISqrtSearch(_, _, _)
ISqrtSearch(n, lo, hi) ==
    IF lo >= hi THEN lo
    ELSE LET mid == (lo + hi + 1) \div 2
         IN  IF mid * mid <= n THEN ISqrtSearch(n, mid, hi)
             ELSE ISqrtSearch(n, lo, mid - 1)

\* floor of the square root of the integer n, 0 <= n < 2^31
ISqrt(n) == ISqrtSearch(n, 0, 46340)

\* math.sqrt(v), v >= 0
Sqrt(v) ==
    IF v <= Lim \div Scale
    THEN LET r == ISqrt(v * Scale)
         IN  IF v * Scale - r * r > r THEN r + 1 ELSE r
    ELSE ISqrt(v) * ISqrt(Scale)

\* max(min(v, 1.0), -1.0)
Clamp(v) == IF v > Scale THEN Scale ELSE IF v < -Scale THEN -Scale ELSE v

\* reduction of an angle into (-pi, pi]
Wrap(x) ==
    LET t == x % TWO_PI
    IN  IF t > PI THEN t - TWO_PI ELSE t

\* The Taylor series of sin from the term t of degree n on, x2 being x^2:
\* t - t x^2/((n+1)(n+2)) + ... up to the term of degree 9
RECURSIVE SinTerms(_, _, _)
SinTerms(t, x2, n) ==
    IF n >= 9 THEN t
    ELSE t - SinTerms(RDiv(Mul(t, x2), (n + 1) * (n + 2)), x2, n + 2)

\* sin on [0, pi/2]: x - x^3/3! + x^5/5! - x^7/7! + x^9/9!
SinQ(x) == Let(LAMBDA x2 : SinTerms(x, x2, 1), Mul(x, x))

\* math.sin
Sin(x) ==
    LET t == Wrap(x)
        u == Abs(t)
        q == IF u > HALF_PI THEN PI - u ELSE u
    IN  Sign(t) * SinQ(q)

\* math.cos
Cos(x) == Sin(x + HALF_PI)

\* math.tan
Tan(x) == Div(Sin(x), Cos(x))

RECURSIVE AcosSearch(_, _, _)
AcosSearch(c, lo, hi) ==
    IF lo >= hi THEN lo
    ELSE LET mid == (lo + hi) \div 2
         IN  IF Cos(mid) <= c THEN AcosSearch(c, lo, mid)
             ELSE AcosSearch(c, mid + 1, hi)

\* math.acos(c) in [0, pi], -1 <= c <= 1
Acos(c) == AcosSearch(c, 0, PI)

RECURSIVE Atan2Search(_, _, _, _)
Atan2Search(y, x, lo, hi) ==
    IF lo >= hi THEN lo
    ELSE LET mid == (lo + hi) \div 2
         IN  IF Mul(Cos(mid), y) - Mul(Sin(mid), x) <= 0
             THEN Atan2Search(y, x, lo, mid)
             ELSE Atan2Search(y, x, mid + 1, hi)

\* math.atan2(y, x) in [-pi, pi]
Atan2(y, x) ==
    IF y = 0 /\ x = 0 THEN 0
    ELSE Sign(y) * Atan2Search(Abs(y), x, 0, PI)

\* math.copysign(v, s)
CopySign(v, s) == IF s < 0 THEN -Abs(v) ELSE Abs(v)

(***************************************************************************)
(* Results of a Python call: a returned value or a raised exception        *)
(***************************************************************************)
Return(v) == [raised |-> "None", value |-> v]

Raise(e) == [raised |-> e, value |-> <<>>]

(***************************************************************************)
(* IR expressions                                                          *)
(***************************************************************************)
Float(v) == [type |-> "Float", value |-> v]

\* Int (the name Int is the set of integers here)
IntExpr(v) == [type |-> "Int", value |-> v]

Bit(i) == [type |-> "Bit", index |-> i]

Qubit(i) == [type |-> "Qubit", index |-> i]

\* An AxisLike that is a plain 3-element array of numbers
ArrayLike(x, y, z) == [type |-> "array", value |-> <<x * Scale, y * Scale, z * Scale>>]

\* Axis._normalize_axis: axis / np.linalg.norm(axis)
normalize_axis(v) ==
    Let(LAMBDA n : <<Div(v[1], n), Div(v[2], n), Div(v[3], n)>>,
        Sqrt(Mul(v[1], v[1]) + Mul(v[2], v[2]) + Mul(v[3], v[3])))

\* Axis._parse_and_validate_axislike, for an Axis or a 3-element array
parse_and_validate_axislike(axis) ==
    IF axis.type = "Axis" THEN axis.value ELSE normalize_axis(axis.value)

\* Axis(axis)
Axis(axis) == [type |-> "Axis", value |-> parse_and_validate_axislike(axis)]

\* Axis.__getitem__ (index from 0)
AxisItem(axis, index) == axis.value[index + 1]

\* opensquirrel.common.normalize_angle: reduction into (-pi, pi]
normalize_angle(x) == Wrap(x)

(***************************************************************************)
(* Generator / arguments metadata                                          *)
(***************************************************************************)
None == "None"

\* arguments = None
NoArguments == [isNone |-> TRUE, tuple |-> <<>>]

\* arguments = tuple(all_args)
Arguments(t) == [isNone |-> FALSE, tuple |-> t]

(***************************************************************************)
(* Gates                                                                   *)
(***************************************************************************)
\* BlochSphereRotation.__init__
BlochSphereRotation(qubit, axis, angle, phase, generator, arguments) ==
    [type |-> "BlochSphereRotation", generator |-> generator, arguments |-> arguments,
     qubit |-> qubit, axis |-> Axis(axis), angle |-> normalize_angle(angle),
     phase |-> normalize_angle(phase)]

\* is_identity comparing with 0 exactly, the tolerance forgotten
is_identity_exact(g) == g.angle = 0 /\ g.phase = 0

\* BlochSphereRotation.is_identity
is_identity(g) == Abs(g.angle) < ATOL /\ Abs(g.phase) < ATOL

\* Gate._check_repeated_qubit_operands: len(qubits) != len(set(qubits))
check_repeated_qubit_operands(qubits) ==
    Len(qubits) # Cardinality({qubits[i] : i \in 1..Len(qubits)})

\* 1 << n
Shl1(n) == 2 ^ n

\* MatrixGate.__init__ with the operand count compared with 1 instead of 2
MatrixGate_one_operand(matrix, operands, generator, arguments) ==
    IF Len(operands) < 1
    THEN Raise("ValueError: for 1q gates, please use BlochSphereRotation")
    ELSE IF check_repeated_qubit_operands(operands)
    THEN Raise("ValueError: control and target qubit cannot be the same")
    ELSE IF matrix.shape # <<Shl1(Len(operands)), Shl1(Len(operands))>>
    THEN Raise("ValueError: incorrect matrix shape")
    ELSE Return([type |-> "MatrixGate", generator |-> generator, arguments |-> arguments,
                 matrix |-> matrix, operands |-> operands])

\* MatrixGate.__init__
MatrixGate(matrix, operands, generator, arguments) ==
    IF Len(operands) < 2
    THEN Raise("ValueError: for 1q gates, please use BlochSphereRotation")
    ELSE IF check_repeated_qubit_operands(operands)
    THEN Raise("ValueError: control and target qubit cannot be the same")
    ELSE IF matrix.shape # <<Shl1(Len(operands)), Shl1(Len(operands))>>
    THEN Raise("ValueError: incorrect matrix shape")
    ELSE Return([type |-> "MatrixGate", generator |-> generator, arguments |-> arguments,
                 matrix |-> matrix, operands |-> operands])

RECURSIVE get_qubit_operands(_)
\* get_qubit_operands of BlochSphereRotation, MatrixGate and ControlledGate
get_qubit_operands(g) ==
    IF g.type = "BlochSphereRotation" THEN <<g.qubit>>
    ELSE IF g.type = "MatrixGate" THEN g.operands
    ELSE <<g.control_qubit>> \o get_qubit_operands(g.target_gate)

\* ControlledGate.__init__ comparing the control qubit with the first operand of the
\* target gate only
ControlledGate_first_operand(control_qubit, target_gate, generator, arguments) ==
    IF control_qubit = get_qubit_operands(target_gate)[1]
    THEN Raise("ValueError: control and target qubit cannot be the same")
    ELSE Return([type |-> "ControlledGate", generator |-> generator,
                 arguments |-> arguments, control_qubit |-> control_qubit,
                 target_gate |-> target_gate])

\* ControlledGate.__init__
ControlledGate(control_qubit, target_gate, generator, arguments) ==
    IF check_repeated_qubit_operands(<<control_qubit>> \o get_qubit_operands(target_gate))
    THEN Raise("ValueError: control and target qubit cannot be the same")
    ELSE Return([type |-> "ControlledGate", generator |-> generator,
                 arguments |-> arguments, control_qubit |-> control_qubit,
                 target_gate |-> target_gate])

(***************************************************************************)
(* Measure and Reset                                                       *)
(***************************************************************************)
\* Measure.__init__
Measure(qubit, bit, axis, generator, arguments) ==
    [type |-> "Measure", generator |-> generator, arguments |-> arguments,
     qubit |-> qubit, bit |-> bit, axis |-> Axis(axis)]

\* Reset.__init__
Reset(qubit, generator, arguments) ==
    [type |-> "Reset", generator |-> generator, arguments |-> arguments, qubit |-> qubit]

\* The parameters of Measure.__init__ and those without a default
MeasureParams == {"qubit", "bit", "axis", "generator", "arguments"}

MeasureRequired == {"qubit", "bit"}

\* The call Measure(**kw): Python binds the keywords to Measure.__init__'s parameters
MeasureCall(kw) ==
    IF ~(DOMAIN kw \subseteq MeasureParams) THEN Raise("TypeError")
    ELSE IF ~(MeasureRequired \subseteq DOMAIN kw) THEN Raise("TypeError")
    ELSE Return(Measure(kw.qubit, kw.bit,
                        IF "axis" \in DOMAIN kw THEN kw.axis ELSE ArrayLike(0, 0, 1),
                        None, NoArguments))

(***************************************************************************)
(* Named generators                                                        *)
(***************************************************************************)
GateGenerators == {"Rx", "Ry", "Rz"}

MeasurementGenerators == {"measure", "measure_z"}

ResetGenerators == {"reset"}

\* inspect.signature(generator).parameters: the declared parameter names, in order
Parameters(gen) ==
    IF gen \in GateGenerators THEN <<"q", "theta">>
    ELSE IF gen \in MeasurementGenerators THEN <<"q", "b">>
    ELSE <<"q">>

Range(f) == {f[i] : i \in DOMAIN f}

IndexOf(seq, x) == CHOOSE i \in DOMAIN seq : seq[i] = x

\* Python's binding of f(*args, **kwargs) to the parameters of f (none has a default)
PyBind(params, args, kwargs) ==
    IF Len(args) > Len(params) THEN Raise("TypeError")
    ELSE IF ~(DOMAIN kwargs \subseteq Range(params)) THEN Raise("TypeError")
    ELSE IF \E i \in 1..Len(args) : params[i] \in DOMAIN kwargs THEN Raise("TypeError")
    ELSE IF \E i \in (Len(args) + 1)..Len(params) : params[i] \notin DOMAIN kwargs
    THEN Raise("TypeError")
    ELSE Return([n \in Range(params) |->
                    IF n \in DOMAIN kwargs THEN kwargs[n] ELSE args[IndexOf(params, n)]])

\* default_gates.Rx, Ry, Rz: BlochSphereRotation(qubit=q, axis=..., angle=theta.value, phase=0)
RotationBody(axis, b) ==
    IF "value" \notin DOMAIN b.theta THEN Raise("AttributeError")
    ELSE Return(BlochSphereRotation(b.q, axis, b.theta.value, 0, None, NoArguments))

\* default_measurements.measure: Measure(qubits=[q.index, ], bit=b, axis=(0, 0, 1))
measure(b) ==
    IF "index" \notin DOMAIN b.q THEN Raise("AttributeError")
    ELSE MeasureCall([qubits |-> <<b.q.index>>, bit |-> b.b, axis |-> ArrayLike(0, 0, 1)])

\* default_measurements.measure_z: Measure(qubits=[q,], bit=b, axis=(0, 0, 1))
measure_z(b) ==
    MeasureCall([qubits |-> <<b.q>>, bit |-> b.b, axis |-> ArrayLike(0, 0, 1)])

\* default_resets.reset: Reset(qubit=q)
reset(b) == Return(Reset(b.q, None, NoArguments))

\* The wrapped function generator(*args, **kwargs)
CallWrapped(gen, args, kwargs) ==
    Let(LAMBDA bound :
            IF bound.raised # None THEN bound
            ELSE IF gen = "Rx" THEN RotationBody(ArrayLike(1, 0, 0), bound.value)
            ELSE IF gen = "Ry" THEN RotationBody(ArrayLike(0, 1, 0), bound.value)
            ELSE IF gen = "Rz" THEN RotationBody(ArrayLike(0, 0, 1), bound.value)
            ELSE IF gen = "measure" THEN measure(bound.value)
            ELSE IF gen = "measure_z" THEN measure_z(bound.value)
            ELSE reset(bound.value),
        PyBind(Parameters(gen), args, kwargs))

RECURSIVE AllArgsFrom(_, _, _, _, _)
\* The wrapper's loop over the parameters from the i-th on, arg_index positional
\* arguments being consumed already
AllArgsFrom(params, args, kwargs, i, arg_index) ==
    IF i > Len(params) THEN Return(<<>>)
    ELSE IF params[i] \in DOMAIN kwargs
    THEN LET rest == AllArgsFrom(params, args, kwargs, i + 1, arg_index)
         IN  IF rest.raised # None THEN rest
             ELSE Return(<<kwargs[params[i]]>> \o rest.value)
    ELSE IF arg_index >= Len(args) THEN Raise("IndexError")
    ELSE LET rest == AllArgsFrom(params, args, kwargs, i + 1, arg_index + 1)
         IN  IF rest.raised # None THEN rest
             ELSE Return(<<args[arg_index + 1]>> \o rest.value)

\* all_args holding the positional arguments only, the keyword arguments forgotten
all_args_positional(params, args, kwargs) == Return(args)

\* all_args of the wrapper
all_args(params, args, kwargs) == AllArgsFrom(params, args, kwargs, 1, 0)

\* The wrapper without `result.generator = wrapper`
wrapper_without_generator(gen, args, kwargs) ==
    Let(LAMBDA result :
            IF result.raised # None THEN result
            ELSE Let(LAMBDA all :
                        IF all.raised # None THEN all
                        ELSE Return([result.value EXCEPT !.arguments = Arguments(all.value)]),
                     all_args(Parameters(gen), args, kwargs)),
        CallWrapped(gen, args, kwargs))

\* The wrapper of named_gate, named_measurement and named_reset
wrapper(gen, args, kwargs) ==
    Let(LAMBDA result :
            IF result.raised # None THEN result
            ELSE Let(LAMBDA all :
                        IF all.raised # None THEN all
                        ELSE Return([result.value EXCEPT !.generator = gen,
                                                         !.arguments = Arguments(all.value)]),
                     all_args(Parameters(gen), args, kwargs)),
        CallWrapped(gen, args, kwargs))

\* named_gate(gate_generator)(*args, **kwargs)
named_gate(gen, args, kwargs) == wrapper(gen, args, kwargs)

\* named_measurement(measurement_generator)(*args, **kwargs)
named_measurement(gen, args, kwargs) == wrapper(gen, args, kwargs)

\* named_reset(reset_generator)(*args, **kwargs)
named_reset(gen, args, kwargs) == wrapper(gen, args, kwargs)

\* A call of the registered generator gen
CallGenerator(gen, args, kwargs) ==
    IF gen \in GateGenerators THEN named_gate(gen, args, kwargs)
    ELSE IF gen \in MeasurementGenerators THEN named_measurement(gen, args, kwargs)
    ELSE named_reset(gen, args, kwargs)

\* The empty **kwargs
NoKwargs == <<>>

(***************************************************************************)
(* ABA decomposer                                                          *)
(***************************************************************************)
\* ABADecomposer._gate_list
gate_list == <<"Rx", "Ry", "Rz">>

\* ABADecomposer.__init__: index_a and index_b (from 0)
ABADecomposer(ra, rb) ==
    [ra |-> ra, rb |-> rb,
     index_a |-> IndexOf(gate_list, ra) - 1, index_b |-> IndexOf(gate_list, rb) - 1]

XYXDecomposer == ABADecomposer("Rx", "Ry")

XZXDecomposer == ABADecomposer("Rx", "Rz")

YXYDecomposer == ABADecomposer("Ry", "Rx")

YZYDecomposer == ABADecomposer("Ry", "Rz")

ZXZDecomposer == ABADecomposer("Rz", "Rx")

ZYZDecomposer == ABADecomposer("Rz", "Ry")

Decomposers ==
    {XYXDecomposer, XZXDecomposer, YXYDecomposer, YZYDecomposer, ZXZDecomposer,
     ZYZDecomposer}

\* The guard of get_decomposition_angles: the angle is accepted
AngleAccepted(alpha) == -PI + ATOL < alpha /\ alpha <= PI + ATOL

\* The general branch once theta2 is known: m, by the tie-break or from b
GeneralBranch(alpha, b, p, theta2) ==
    IF Abs(Sin(Half(theta2))) < ATOL
    THEN [branch |-> "tie", theta2 |-> theta2, p |-> p, m |-> p, acos |-> <<>>]
    ELSE [branch |-> "general", theta2 |-> theta2, p |-> p,
          m |-> 2 * Acos(Clamp(Div(Mul(b, Sin(Half(alpha))), Sin(Half(theta2))))),
          acos |-> <<>>]

\* theta2 of the general branch
GeneralTheta2(alpha, a) ==
    Let(LAMBDA at :
            CopySign(2 * Acos(Clamp(Mul(Cos(Half(alpha)), Sqrt(Scale + Mul(at, at))))),
                     alpha),
        Mul(a, Tan(Half(alpha))))

\* The body of get_decomposition_angles after the guard, a and b being
\* axis[index_a] and axis[index_b]: p, m and theta2, and the arguments given to
\* math.acos as they are, without the clamp to [-1, 1]
DecompositionPM(alpha, a, b) ==
    IF Abs(alpha - PI) < ATOL
    THEN IF Abs(a) < ATOL
         THEN [branch |-> "pi_a0", theta2 |-> PI, p |-> 0, m |-> 2 * Acos(b),
               acos |-> <<b>>]
         ELSE IF Abs(a - Scale) < ATOL \/ Abs(a + Scale) < ATOL
         THEN [branch |-> "pi_a1", theta2 |-> 2 * Acos(a), p |-> PI, m |-> PI,
               acos |-> <<a>>]
         ELSE [branch |-> "pi", theta2 |-> 2 * Acos(a), p |-> PI,
               m |-> 2 * Acos(Div(b, Sqrt(Scale - Mul(a, a)))),
               acos |-> <<a, Div(b, Sqrt(Scale - Mul(a, a)))>>]
    ELSE Let(LAMBDA theta2 :
                GeneralBranch(alpha, b,
                              2 * Atan2(Mul(a, Sin(Half(alpha))), Cos(Half(alpha))),
                              theta2),
             GeneralTheta2(alpha, a))

\* p, m and theta2 for the decomposer self and the normalized axis
DecompositionLocals(self, alpha, axis) ==
    Let(LAMBDA ax : DecompositionPM(alpha, AxisItem(ax, self.index_a),
                                    AxisItem(ax, self.index_b)),
        Axis(axis))

\* The returned triple with theta3 = theta1 - p
AnglesFrom_negated_theta3(p, theta1, theta2) == <<theta1, theta2, theta1 - p>>

\* theta1 = (p + m) / 2, theta3 = p - theta1
AnglesFrom(p, theta1, theta2) == <<theta1, theta2, p - theta1>>

\* math.acos raises ValueError for an argument outside [-1, 1]
MathDomainError(l) == \E i \in DOMAIN l.acos : Abs(l.acos[i]) > Scale

\* ABADecomposer.get_decomposition_angles
get_decomposition_angles(self, alpha, axis) ==
    IF ~AngleAccepted(alpha) THEN Raise("ValueError: Angle needs to be normalized")
    ELSE Let(LAMBDA l :
                IF MathDomainError(l) THEN Raise("ValueError: math domain error")
                ELSE Return(AnglesFrom(l.p, Half(l.p + l.m), l.theta2)),
             DecompositionLocals(self, alpha, axis))

\* opensquirrel.utils.identity_filter.filter_out_identities
filter_out_identities(gates) == SelectSeq(gates, LAMBDA g : ~is_identity(g))

\* The gates a1, b, a2 of decompose, for the angles theta
ABAGates(self, g, theta) ==
    <<CallGenerator(self.ra, <<g.qubit, Float(theta[1])>>, NoKwargs).value,
      CallGenerator(self.rb, <<g.qubit, Float(theta[2])>>, NoKwargs).value,
      CallGenerator(self.ra, <<g.qubit, Float(theta[3])>>, NoKwargs).value>>

\* ABADecomposer.decompose for a BlochSphereRotation g: the three rotations, filtered
decompose_rotation(self, g) ==
    Let(LAMBDA angles :
            IF angles.raised # None THEN angles
            ELSE Return(filter_out_identities(ABAGates(self, g, angles.value))),
        get_decomposition_angles(self, g.angle, g.axis))

\* decompose with the early return of a non-rotation returning an empty list
decompose_dropping(self, g) ==
    IF g.type # "BlochSphereRotation" THEN Return(<<>>)
    ELSE decompose_rotation(self, g)

\* ABADecomposer.decompose
decompose(self, g) ==
    IF g.type # "BlochSphereRotation" THEN Return(<<g>>)
    ELSE decompose_rotation(self, g)

(***************************************************************************)
(* Equality of nodes                                                       *)
(***************************************************************************)
\* np.allclose(a, b, rtol=1e-5, atol=atol) on two 3-vectors
allclose(a, b, atol) ==
    \A i \in 1..3 : Abs(a[i] - b[i]) <= atol + RDiv(Abs(b[i]), 10 ^ 5)

\* -v
Negated(v) == <<-v[1], -v[2], -v[3]>>

\* BlochSphereRotation.__eq__ without the comparison of the qubits
BlochSphereRotationEq_any_qubit(self, other) ==
    IF other.type # "BlochSphereRotation" THEN FALSE
    ELSE IF Abs(self.phase - other.phase) > ATOL THEN FALSE
    ELSE IF allclose(self.axis.value, other.axis.value, 0)
    THEN Abs(self.angle - other.angle) < ATOL
    ELSE IF allclose(self.axis.value, Negated(other.axis.value), 0)
    THEN Abs(self.angle + other.angle) < ATOL
    ELSE FALSE

\* BlochSphereRotation.__eq__ (np.allclose's default atol, 1e-8, is 0 on the grid)
BlochSphereRotationEq(self, other) ==
    IF other.type # "BlochSphereRotation" THEN FALSE
    ELSE IF self.qubit # other.qubit THEN FALSE
    ELSE IF Abs(self.phase - other.phase) > ATOL THEN FALSE
    ELSE IF allclose(self.axis.value, other.axis.value, 0)
    THEN Abs(self.angle - other.angle) < ATOL
    ELSE IF allclose(self.axis.value, Negated(other.axis.value), 0)
    THEN Abs(self.angle + other.angle) < ATOL
    ELSE FALSE

\* Measure.__eq__ comparing the generators as well
MeasureEq_with_generator(self, other) ==
    IF other.type # "Measure" THEN FALSE
    ELSE /\ self.qubit = other.qubit
         /\ allclose(self.axis.value, other.axis.value, ATOL)
         /\ self.generator = other.generator

\* Measure.__eq__
MeasureEq(self, other) ==
    IF other.type # "Measure" THEN FALSE
    ELSE self.qubit = other.qubit /\ allclose(self.axis.value, other.axis.value, ATOL)

\* Reset.__eq__
ResetEq(self, other) ==
    IF other.type # "Reset" THEN FALSE
    ELSE self.qubit = other.qubit

\* self == other for a BlochSphereRotation, Measure or Reset self
NodeEq(self, other) ==
    IF self.type = "BlochSphereRotation" THEN BlochSphereRotationEq(self, other)
    ELSE IF self.type = "Measure" THEN MeasureEq(self, other)
    ELSE ResetEq(self, other)

\* Axis.__eq__: np.array_equal on the stored components
AxisEq(self, other) ==
    IF other.type # "Axis" THEN FALSE
    ELSE self.value = other.value

\* Comment.__eq__, generated by @dataclass
CommentEq(self, other) ==
    IF other.type # "Comment" THEN FALSE
    ELSE self.str = other.str

(***************************************************************************)
(* The unitary of a rotation, as the circuit-matrix compiler builds it     *)
(***************************************************************************)
\* cos(angle/2) I - i sin(angle/2) (axis . sigma), as its four real coefficients
RotationMatrix(axis, angle) ==
    LET s == Sin(Half(angle))
    IN  <<Cos(Half(angle)), Mul(axis[1], s), Mul(axis[2], s), Mul(axis[3], s)>>

\* The matrix product a . b of two such unitaries
MatrixProduct(a, b) ==
    <<Mul(a[1], b[1]) - Mul(a[2], b[2]) - Mul(a[3], b[3]) - Mul(a[4], b[4]),
      Mul(a[1], b[2]) + Mul(a[2], b[1]) + Mul(a[3], b[4]) - Mul(a[4], b[3]),
      Mul(a[1], b[3]) - Mul(a[2], b[4]) + Mul(a[3], b[1]) + Mul(a[4], b[2]),
      Mul(a[1], b[4]) + Mul(a[2], b[3]) - Mul(a[3], b[2]) + Mul(a[4], b[1])>>

\* are_matrices_equivalent_up_to_global_phase, for two unitaries of determinant 1
are_matrices_equivalent_up_to_global_phase(a, b) ==
    \/ \A i \in 1..4 : Abs(a[i] - b[i]) < ATOL
    \/ \A i \in 1..4 : Abs(a[i] + b[i]) < ATOL

\* The circuit matrix of a BlochSphereRotation, its phase left out
GateMatrix(g) == RotationMatrix(g.axis.value, g.angle)

\* The 2x2 identity
Identity2 == <<Scale, 0, 0, 0>>

\* A matrix that is the Kronecker product of 2x2 unitaries, one per operand
ProductMatrix(factors) ==
    [shape |-> <<2 ^ Len(factors), 2 ^ Len(factors)>>, factors |-> factors]

\* get_circuit_matrix(get_reindexed_circuit([g], mapping)) for a rotation of phase 0,
\* a MatrixGate on a ProductMatrix and a ControlledGate on one of these: the qubits
\* that control, and for each qubit of the mapping the 2x2 unitary applied to it
\* when every control is 1 (the identity on a qubit the gate does not act on)
RECURSIVE get_circuit_matrix(_, _)
get_circuit_matrix(g, mapping) ==
    IF g.type = "BlochSphereRotation"
    THEN [controls |-> {},
          factors |-> [q \in mapping |->
                          IF q = g.qubit.index THEN GateMatrix(g) ELSE Identity2]]
    ELSE IF g.type = "MatrixGate"
    THEN [controls |-> {},
          factors |-> [q \in mapping |->
                          IF \E i \in DOMAIN g.operands : g.operands[i].index = q
                          THEN g.matrix.factors[CHOOSE i \in DOMAIN g.operands :
                                                   g.operands[i].index = q]
                          ELSE Identity2]]
    ELSE [controls |-> get_circuit_matrix(g.target_gate, mapping).controls
                          \cup {g.control_qubit.index},
          factors |-> get_circuit_matrix(g.target_gate, mapping).factors]

\* are_matrices_equivalent_up_to_global_phase for two such circuit matrices whose
\* controlled unitary is no multiple of the identity: the same controls and, qubit by
\* qubit, the same 2x2 unitary up to sign; under a control the product of the signs
\* is +1, as the phase is fixed by the block where a control is 0
CircuitMatricesEquivalent(m1, m2) ==
    /\ m1.controls = m2.controls
    /\ \A q \in DOMAIN m1.factors :
          are_matrices_equivalent_up_to_global_phase(m1.factors[q], m2.factors[q])
    /\ m1.controls # {} =>
          Cardinality({q \in DOMAIN m1.factors :
                          \A i \in 1..4 : Abs(m1.factors[q][i] + m2.factors[q][i]) < ATOL})
              % 2 = 0

\* compare_gates
compare_gates(g1, g2) ==
    CircuitMatricesEquivalent(
        get_circuit_matrix(g1, {q.index : q \in Range(get_qubit_operands(g1))
                                               \cup Range(get_qubit_operands(g2))}),
        get_circuit_matrix(g2, {q.index : q \in Range(get_qubit_operands(g1))
                                               \cup Range(get_qubit_operands(g2))}))

GateTypes == {"BlochSphereRotation", "MatrixGate", "ControlledGate"}

\* Gate.__eq__, inherited by MatrixGate and ControlledGate
GateEq(self, other) ==
    IF other.type \notin GateTypes THEN FALSE
    ELSE compare_gates(self, other)

\* self == other, by the __eq__ of self's class
Eq(self, other) ==
    IF self.type = "BlochSphereRotation" THEN BlochSphereRotationEq(self, other)
    ELSE IF self.type \in {"MatrixGate", "ControlledGate"} THEN GateEq(self, other)
    ELSE IF self.type = "Measure" THEN MeasureEq(self, other)
    ELSE IF self.type = "Reset" THEN ResetEq(self, other)
    ELSE IF self.type = "Axis" THEN AxisEq(self, other)
    ELSE CommentEq(self, other)

(***************************************************************************)
(* Visitor                                                                 *)
(***************************************************************************)
Comment(str) == [type |-> "Comment", str |-> str]

\* An IR object with its list of statements
IR(stmts) == [type |-> "IR", statements |-> stmts]

\* IR.add_gate, add_measurement, add_reset, add_comment: the list after the call
add_gate(stmts, gate) == Append(stmts, gate)

add_measurement(stmts, measurement) == Append(stmts, measurement)

add_reset(stmts, statement) == Append(stmts, statement)

add_comment(stmts, comment) == Append(stmts, comment)

\* list.__eq__ of self.statements == other.statements: the lengths, then the
\* elements by their own ==
ListEq(a, b) ==
    /\ Len(a) = Len(b)
    /\ \A i \in 1..Len(a) : Eq(a[i], b[i])

\* IR.__eq__ that compares the statements both lists have
IREq_common_prefix(self, other) ==
    IF other.type # "IR" THEN FALSE
    ELSE \A i \in 1..Len(self.statements) :
            i \in 1..Len(other.statements) => Eq(self.statements[i], other.statements[i])

\* IR.__eq__
IREq(self, other) ==
    IF other.type # "IR" THEN FALSE
    ELSE ListEq(self.statements, other.statements)

\* What visitor v's hook returns: IRVisitor itself (v = 0) returns None from every
\* hook, a subclass v > 0 returns a value that tells the hooks apart
VisitResult(v, hook) ==
    IF v = 0 THEN [isNone |-> TRUE, hook |-> None, visitor |-> v]
    ELSE [isNone |-> FALSE, hook |-> hook, visitor |-> v]

\* The hooks called, with ControlledGate.accept going to its own hook directly
AcceptHooks_controlled_direct(node) ==
    IF node.type = "Comment" THEN <<"visit_comment">>
    ELSE IF node.type = "Int" THEN <<"visit_int">>
    ELSE IF node.type = "Float" THEN <<"visit_float">>
    ELSE IF node.type = "Bit" THEN <<"visit_bit">>
    ELSE IF node.type = "Qubit" THEN <<"visit_qubit">>
    ELSE IF node.type = "Axis" THEN <<"visit_axis">>
    ELSE IF node.type = "Measure" THEN <<"visit_measure">>
    ELSE IF node.type = "Reset" THEN <<"visit_reset">>
    ELSE IF node.type = "BlochSphereRotation"
    THEN <<"visit_gate", "visit_bloch_sphere_rotation">>
    ELSE IF node.type = "MatrixGate" THEN <<"visit_gate", "visit_matrix_gate">>
    ELSE <<"visit_controlled_gate">>

\* The hooks node.accept(visitor) calls, in order
AcceptHooks(node) ==
    IF node.type = "Comment" THEN <<"visit_comment">>
    ELSE IF node.type = "Int" THEN <<"visit_int">>
    ELSE IF node.type = "Float" THEN <<"visit_float">>
    ELSE IF node.type = "Bit" THEN <<"visit_bit">>
    ELSE IF node.type = "Qubit" THEN <<"visit_qubit">>
    ELSE IF node.type = "Axis" THEN <<"visit_axis">>
    ELSE IF node.type = "Measure" THEN <<"visit_measure">>
    ELSE IF node.type = "Reset" THEN <<"visit_reset">>
    ELSE IF node.type = "BlochSphereRotation"
    THEN <<"visit_gate", "visit_bloch_sphere_rotation">>
    ELSE IF node.type = "MatrixGate" THEN <<"visit_gate", "visit_matrix_gate">>
    ELSE <<"visit_gate", "visit_controlled_gate">>

\* node.accept(visitor): the calls made on the visitor and the value returned
accept(node, v) ==
    LET hooks == AcceptHooks(node)
    IN  [calls |-> [i \in 1..Len(hooks) |-> [hook |-> hooks[i], node |-> node]],
         result |-> VisitResult(v, hooks[Len(hooks)])]

(***************************************************************************)
(* Inputs                                                                  *)
(***************************************************************************)
\* Number of qubits of the register
NQubits == 3

\* Largest number of operands given to MatrixGate
MaxOperands == 3

\* Largest number of positional arguments given to a generator
MaxArgs == 2

\* Number of visitor subclasses, besides IRVisitor itself
NVisitors == 2

Qubits == {Qubit(i) : i \in 0..(NQubits - 1)}

\* AxisLike inputs: the 26 directions with components in {-1, 0, 1}
AxisInputs ==
    {ArrayLike(x, y, z) : x \in -1..1, y \in -1..1, z \in -1..1} \ {ArrayLike(0, 0, 0)}

\* Multiples of pi/6 and of pi/4 up to 5 pi/6 in magnitude, and pi
AngleGrid ==
    {k * (PI \div 6) : k \in -5..5} \cup {k * (PI \div 4) : k \in {-3, -1, 1, 3}} \cup {PI}

\* Angles within ATOL of 0
NearZero == {-(ATOL - 1), -(ATOL \div 2), -1, 1, ATOL \div 2, ATOL - 1}

\* Angles at the two ends of the accepted interval
NearPi ==
    {-PI - ATOL - 1, -PI - ATOL, -PI - ATOL + 1, -PI, -PI + 1, -PI + ATOL - 1,
     -PI + ATOL, -PI + ATOL + 1, PI + ATOL - 1, PI + ATOL, PI + ATOL + 1}

AngleInputs == AngleGrid \cup NearZero \cup NearPi

\* Angles and phases given to BlochSphereRotation(...), which normalizes them
RotationAngles ==
    {0, ATOL - 1, -(ATOL \div 2), PI \div 2, -2 * (PI \div 3), 5 * (PI \div 6), PI, -PI,
     -PI + 1, -PI + ATOL, -PI + ATOL + 1, 3 * HALF_PI, TWO_PI}

RotationPhases == {0, PI \div 2}

\* Anonymous rotations, built directly
Rotations ==
    {BlochSphereRotation(q, axis, angle, phase, None, NoArguments) :
        q \in Qubits, axis \in AxisInputs, angle \in RotationAngles, phase \in RotationPhases}

\* Matrices, by their shape
Matrices == {[shape |-> <<2 ^ r, 2 ^ c>>] : r \in 0..MaxOperands, c \in 0..MaxOperands}

\* Operand lists of up to MaxOperands qubits
OperandLists == UNION {[1..n -> Qubits] : n \in 0..MaxOperands}

\* The MatrixGates that can be built
MatrixGates ==
    {r.value : r \in {x \in {MatrixGate(m, ops, None, NoArguments) :
                                m \in Matrices, ops \in OperandLists} : x.raised = None}}

SomeRotations ==
    {BlochSphereRotation(q, ArrayLike(1, 0, 1), PI, PI \div 2, None, NoArguments) :
        q \in Qubits}

\* The ControlledGates that can be built on a rotation, a MatrixGate or a ControlledGate
ControlledOn(targets) ==
    {r.value : r \in {x \in {ControlledGate(c, t, None, NoArguments) :
                                c \in Qubits, t \in targets} : x.raised = None}}

ControlledGates ==
    ControlledOn(SomeRotations) \cup ControlledOn(MatrixGates)
        \cup ControlledOn(ControlledOn(SomeRotations))

\* Values passed to generators
ArgValues == {Qubit(0), Qubit(1), Bit(0), Float(3 * HALF_PI)}

ArgLists == UNION {[1..n -> ArgValues] : n \in 0..MaxArgs}

KeywordNames == {"q", "theta", "b"}

KeywordArgs ==
    UNION {[names -> ArgValues] : names \in {n \in SUBSET KeywordNames : Cardinality(n) <= 2}}

Generators == GateGenerators \cup MeasurementGenerators \cup ResetGenerators

\* Rotations to compare: two qubits, an axis, its opposite and another axis, angles
\* and phases at and around the tolerance
EqQubits == {Qubit(0), Qubit(1)}

EqAxes == {ArrayLike(1, 0, 0), ArrayLike(-1, 0, 0), ArrayLike(0, 0, 1)}

EqAngles == {HALF_PI, -HALF_PI, HALF_PI + ATOL - 1, HALF_PI + ATOL}

EqPhases == {0, ATOL, ATOL + 1}

AnonymousRotations ==
    {BlochSphereRotation(q, axis, angle, phase, None, NoArguments) :
        q \in EqQubits, axis \in EqAxes, angle \in EqAngles, phase \in EqPhases}

\* Rotations that carry a generator and arguments
GeneratedRotations ==
    {BlochSphereRotation(q, axis, angle, 0, "Rx", Arguments(<<q, Float(HALF_PI)>>)) :
        q \in EqQubits, axis \in EqAxes, angle \in EqAngles}

EqRotations == AnonymousRotations \cup GeneratedRotations

\* Measurement axes: z, an axis within ATOL of z, and x
MeasureAxes ==
    {ArrayLike(0, 0, 1), [type |-> "array", value |-> <<0, ATOL \div 2, Scale>>],
     ArrayLike(1, 0, 0)}

\* Anonymous measurements and measurements that carry a generator and arguments
EqMeasures ==
    {Measure(q, b, axis, None, NoArguments) :
        q \in EqQubits, b \in {Bit(0), Bit(1)}, axis \in MeasureAxes}
    \cup {Measure(q, Bit(0), axis, gen, Arguments(<<q, Bit(0)>>)) :
             q \in EqQubits, axis \in MeasureAxes, gen \in MeasurementGenerators}

\* Anonymous resets and resets that carry a generator and arguments
EqResets ==
    {Reset(q, None, NoArguments) : q \in EqQubits}
    \cup {Reset(q, "reset", Arguments(<<q>>)) : q \in EqQubits}

\* Axes to compare: x, x from a longer vector, two axes within ATOL of x, and z
EqAxisValues ==
    {Axis(ArrayLike(1, 0, 0)), Axis(ArrayLike(2, 0, 0)),
     Axis([type |-> "array", value |-> <<Scale, 1, 0>>]),
     Axis([type |-> "array", value |-> <<Scale, ATOL \div 2, 0>>]),
     Axis(ArrayLike(0, 0, 1))}

\* Gates of the three variants to compare: quarter turns about x, -x and z, the
\* MatrixGates of a quarter turn about x on one or both of two qubits, and
\* quarter turns about x and -x under a control
QuarterTurn(q, axis, angle) ==
    BlochSphereRotation(Qubit(q), axis, angle, 0, None, NoArguments)

EqGateRotations ==
    {QuarterTurn(0, ArrayLike(1, 0, 0), HALF_PI), QuarterTurn(0, ArrayLike(-1, 0, 0), -HALF_PI),
     QuarterTurn(1, ArrayLike(1, 0, 0), HALF_PI), QuarterTurn(0, ArrayLike(0, 0, 1), HALF_PI)}

EqMatrixGates ==
    {MatrixGate(ProductMatrix(factors), operands, None, NoArguments).value :
        factors \in {<<RotationMatrix(<<Scale, 0, 0>>, HALF_PI), Identity2>>,
                     <<RotationMatrix(<<Scale, 0, 0>>, HALF_PI),
                       RotationMatrix(<<Scale, 0, 0>>, HALF_PI)>>},
        operands \in {<<Qubit(0), Qubit(1)>>, <<Qubit(1), Qubit(0)>>}}

EqControlledGates ==
    {ControlledGate(Qubit(1 - g.qubit.index), g, None, NoArguments).value :
        g \in EqGateRotations \ {QuarterTurn(0, ArrayLike(0, 0, 1), HALF_PI)}}

EqGates == EqGateRotations \cup EqMatrixGates \cup EqControlledGates

\* The pairs (self, other) compared with ==, as the sets self and other come from
EqPairs ==
    <<[self |-> EqGates, other |-> EqGates],
      [self |-> EqRotations, other |-> EqRotations],
      [self |-> EqMeasures \cup EqResets,
       other |-> EqMeasures \cup EqResets \cup SomeRotations],
      [self |-> EqAxisValues, other |-> EqAxisValues \cup {Qubit(0)}]>>

\* The IR objects of a program
IRs == {1, 2}

\* Largest number of statements added to one IR
MaxStatements == 2

\* Statements to add: a rotation and the same rotation about the opposite axis
\* by the opposite angle, a measurement, a reset and a comment
IRGates ==
    {BlochSphereRotation(Qubit(0), ArrayLike(1, 0, 0), HALF_PI, 0, None, NoArguments),
     BlochSphereRotation(Qubit(0), ArrayLike(-1, 0, 0), -HALF_PI, 0, None, NoArguments)}

IRMeasures == {Measure(Qubit(0), Bit(0), ArrayLike(0, 0, 1), None, NoArguments)}

IRResets == {Reset(Qubit(0), None, NoArguments)}

IRComments == {Comment("c")}

\* Nodes of every kind: expressions and axes, statements, gates
NodeKinds ==
    <<{IntExpr(1), Float(PI), Bit(0), Qubit(0)},
      {Axis(ArrayLike(0, 0, 1))},
      {Comment("c")},
      {Measure(Qubit(0), Bit(0), ArrayLike(0, 0, 1), None, NoArguments),
       Reset(Qubit(0), None, NoArguments)},
      SomeRotations \cup MatrixGates \cup ControlledGates>>

(***************************************************************************)
(* Operations                                                              *)
(***************************************************************************)
Init ==
    /\ pc = "idle"
    /\ arg = <<>>
    /\ ret = <<>>
    /\ visited = <<>>
    /\ statements = [ir \in IRs |-> <<>>]

\* A direct call d.get_decomposition_angles(alpha, axis)
GetDecompositionAngles ==
    /\ pc = "idle"
    /\ \E self \in Decomposers, alpha \in AngleInputs, axis \in AxisInputs :
          /\ arg' = [self |-> self, alpha |-> alpha, axis |-> axis]
          /\ ret' = get_decomposition_angles(self, alpha, axis)
    /\ pc' = "get_decomposition_angles"
    /\ UNCHANGED <<visited, statements>>

\* d.decompose(g)
Decompose ==
    /\ pc = "idle"
    /\ \E self \in Decomposers, g \in Rotations \cup MatrixGates \cup ControlledGates :
          /\ arg' = [self |-> self, g |-> g]
          /\ ret' = decompose(self, g)
    /\ pc' = "decompose"
    /\ UNCHANGED <<visited, statements>>

\* A call generator(*args, **kwargs) of a registered generator
Generate ==
    /\ pc = "idle"
    /\ \E gen \in Generators, args \in ArgLists, kwargs \in KeywordArgs :
          /\ arg' = [gen |-> gen, args |-> args, kwargs |-> kwargs]
          /\ ret' = CallGenerator(gen, args, kwargs)
    /\ pc' = "generate"
    /\ UNCHANGED <<visited, statements>>

\* node.generator(*node.arguments) on the node a generator returned
Regenerate ==
    /\ pc = "generate"
    /\ ret.raised = None
    /\ arg' = [node |-> ret.value]
    /\ ret' = CallGenerator(ret.value.generator, ret.value.arguments.tuple, NoKwargs)
    /\ pc' = "regenerate"
    /\ UNCHANGED <<visited, statements>>

\* node.accept(visitor)
Accept ==
    /\ pc = "idle"
    /\ \E k \in DOMAIN NodeKinds : \E node \in NodeKinds[k], v \in 0..NVisitors :
          /\ arg' = [node |-> node, visitor |-> v]
          /\ \E r \in {accept(node, v)} :
                /\ visited' = r.calls
                /\ ret' = Return(r.result)
    /\ pc' = "accept"
    /\ UNCHANGED statements

\* MatrixGate(matrix, operands)
NewMatrixGate ==
    /\ pc = "idle"
    /\ \E matrix \in Matrices, operands \in OperandLists :
          /\ arg' = [matrix |-> matrix, operands |-> operands]
          /\ ret' = MatrixGate(matrix, operands, None, NoArguments)
    /\ pc' = "MatrixGate"
    /\ UNCHANGED <<visited, statements>>

\* ControlledGate(control_qubit, target_gate)
NewControlledGate ==
    /\ pc = "idle"
    /\ \E control_qubit \in Qubits,
          target_gate \in SomeRotations \cup MatrixGates \cup ControlledGates :
          /\ arg' = [control_qubit |-> control_qubit, target_gate |-> target_gate]
          /\ ret' = ControlledGate(control_qubit, target_gate, None, NoArguments)
    /\ pc' = "ControlledGate"
    /\ UNCHANGED <<visited, statements>>

\* self == other
Equals ==
    /\ pc = "idle"
    /\ \E k \in DOMAIN EqPairs : \E self \in EqPairs[k].self, other \in EqPairs[k].other :
          /\ arg' = [self |-> self, other |-> other]
          /\ ret' = Return(Eq(self, other))
    /\ pc' = "eq"
    /\ UNCHANGED <<visited, statements>>

\* The caller takes the result and goes on
Done ==
    /\ pc # "idle"
    /\ pc' = "idle"
    /\ arg' = <<>>
    /\ ret' = <<>>
    /\ visited' = <<>>
    /\ UNCHANGED statements

Next ==
    \/ GetDecompositionAngles
    \/ Decompose
    \/ Generate
    \/ Regenerate
    \/ Accept
    \/ NewMatrixGate
    \/ NewControlledGate
    \/ Equals
    \/ Done

Spec == Init /\ [][Next]_vars

\* ir.add_gate(gate)
AddGate ==
    /\ pc = "idle"
    /\ \E self \in IRs, gate \in IRGates :
          /\ Len(statements[self]) < MaxStatements
          /\ arg' = [self |-> self, statement |-> gate]
          /\ statements' = [statements EXCEPT ![self] = add_gate(@, gate)]
    /\ ret' = Return(None)
    /\ pc' = "add_gate"
    /\ UNCHANGED visited

\* ir.add_measurement(measurement)
AddMeasurement ==
    /\ pc = "idle"
    /\ \E self \in IRs, measurement \in IRMeasures :
          /\ Len(statements[self]) < MaxStatements
          /\ arg' = [self |-> self, statement |-> measurement]
          /\ statements' = [statements EXCEPT ![self] = add_measurement(@, measurement)]
    /\ ret' = Return(None)
    /\ pc' = "add_measurement"
    /\ UNCHANGED visited

\* ir.add_reset(reset)
AddReset ==
    /\ pc = "idle"
    /\ \E self \in IRs, statement \in IRResets :
          /\ Len(statements[self]) < MaxStatements
          /\ arg' = [self |-> self, statement |-> statement]
          /\ statements' = [statements EXCEPT ![self] = add_reset(@, statement)]
    /\ ret' = Return(None)
    /\ pc' = "add_reset"
    /\ UNCHANGED visited

\* ir.add_comment(comment)
AddComment ==
    /\ pc = "idle"
    /\ \E self \in IRs, comment \in IRComments :
          /\ Len(statements[self]) < MaxStatements
          /\ arg' = [self |-> self, statement |-> comment]
          /\ statements' = [statements EXCEPT ![self] = add_comment(@, comment)]
    /\ ret' = Return(None)
    /\ pc' = "add_comment"
    /\ UNCHANGED visited

\* ir == other, where other is an IR or the statement list of one
IREquals ==
    /\ pc = "idle"
    /\ \E self \in IRs, o \in IRs, other_type \in {"IR", "list"} :
          /\ arg' = [self |-> IR(statements[self]),
                     other |-> [type |-> other_type, statements |-> statements[o]]]
          /\ ret' = Return(IREq(IR(statements[self]),
                                [type |-> other_type, statements |-> statements[o]]))
    /\ pc' = "ir_eq"
    /\ UNCHANGED <<visited, statements>>

NextIR ==
    \/ AddGate
    \/ AddMeasurement
    \/ AddReset
    \/ AddComment
    \/ IREquals
    \/ Done

\* A program that builds IRs and compares them
SpecIR == Init /\ [][NextIR]_vars

(***************************************************************************)
(* Properties of the ABA decomposition                                     *)
(***************************************************************************)
\* The unit vector a default rotation generator turns about
GeneratorAxis(gen) ==
    IF gen = "Rx" THEN <<Scale, 0, 0>>
    ELSE IF gen = "Ry" THEN <<0, Scale, 0>>
    ELSE <<0, 0, Scale>>

\* The unitary Ra(theta3) . Rb(theta2) . Ra(theta1)
Reconstructed(self, theta) ==
    MatrixProduct(
        MatrixProduct(RotationMatrix(GeneratorAxis(self.ra), theta[3]),
                      RotationMatrix(GeneratorAxis(self.rb), theta[2])),
        RotationMatrix(GeneratorAxis(self.ra), theta[1]))

\* C1: for every axis, every angle alpha of the grid in (-pi, pi] and each of the six
\* decomposers, get_decomposition_angles returns angles whose rotations
\* Ra(theta3) . Rb(theta2) . Ra(theta1) compose to R(axis, alpha), within ATOL and up
\* to the global phase
ABARoundTrip ==
    (pc = "get_decomposition_angles" /\ arg.alpha \in AngleGrid)
        => /\ ret.raised = None
           /\ are_matrices_equivalent_up_to_global_phase(
                  Reconstructed(arg.self, ret.value),
                  RotationMatrix(Axis(arg.axis).value, arg.alpha))

\* C2: get_decomposition_angles raises the unnormalized-angle error exactly when alpha
\* lies outside (-pi - ATOL, pi + ATOL]
UnnormalizedAngleExactlyOutside ==
    pc = "get_decomposition_angles"
        => ((ret.raised = "ValueError: Angle needs to be normalized")
                <=> ~(-PI - ATOL < arg.alpha /\ arg.alpha <= PI + ATOL))

\* C3: decompose(g) never raises the unnormalized-angle error for a
\* BlochSphereRotation g, whose angle its constructor normalized
DecomposeNeverUnnormalized ==
    (pc = "decompose" /\ arg.g.type = "BlochSphereRotation")
        => ret.raised # "ValueError: Angle needs to be normalized"

\* C4: decompose(g) returns the list [g], and raises nothing, for every gate g that is
\* not a BlochSphereRotation
NonRotationPassesThrough ==
    (pc = "decompose" /\ arg.g.type # "BlochSphereRotation")
        => ret = [raised |-> None, value |-> <<arg.g>>]

\* A ControlledGate on a MatrixGate has gone through decompose
NonRotationDecomposed ==
    /\ pc = "decompose"
    /\ arg.g.type = "ControlledGate"
    /\ arg.g.target_gate.type = "MatrixGate"
    /\ ret.raised = None
    /\ Len(ret.value) = 1

\* The gates of a list that are no identity rotations, in their order
WithoutIdentities(gates) ==
    SelectSeq(gates, LAMBDA x : ~(Abs(x.angle) < ATOL /\ Abs(x.phase) < ATOL))

\* [Ra(qubit, theta1), Rb(qubit, theta2), Ra(qubit, theta3)]
ThreeRotations(self, qubit, theta) ==
    <<named_gate(self.ra, <<qubit, Float(theta[1])>>, NoKwargs).value,
      named_gate(self.rb, <<qubit, Float(theta[2])>>, NoKwargs).value,
      named_gate(self.ra, <<qubit, Float(theta[3])>>, NoKwargs).value>>

\* What C5 says of the list decompose returned for the rotation g: it is
\* [Ra(theta1), Rb(theta2), Ra(theta3)] on g.qubit without its identity rotations
IsFilteredDecomposition(self, g, gates) ==
    /\ gates = WithoutIdentities(
                   ThreeRotations(self, g.qubit,
                                  get_decomposition_angles(self, g.angle, g.axis).value))
    /\ Len(gates) <= 3
    /\ \A i \in 1..Len(gates) :
          /\ gates[i].qubit = g.qubit
          /\ ~(Abs(gates[i].angle) < ATOL /\ Abs(gates[i].phase) < ATOL)
          /\ gates[i].generator \in {self.ra, self.rb}
    /\ \A i \in 1..Len(gates) : \A j \in (i + 1)..Len(gates) :
          gates[i].generator = self.rb => gates[j].generator = self.ra

\* C5: for every BlochSphereRotation g, decompose(g) returns the list
\* [Ra(g.qubit, theta1), Rb(g.qubit, theta2), Ra(g.qubit, theta3)] with exactly the
\* identity rotations removed: at most three gates, all on g.qubit, in their order,
\* none an identity
DecomposeReturnsFiltered ==
    (pc = "decompose" /\ arg.g.type = "BlochSphereRotation")
        => /\ ret.raised = None
           /\ IsFilteredDecomposition(arg.self, arg.g, ret.value)

\* C6: decomposing a BlochSphereRotation whose angle is 0 within ATOL and whose phase
\* is 0 yields the empty gate list, for every qubit, axis and decomposer
IdentityDecomposesToNothing ==
    (/\ pc = "decompose"
     /\ arg.g.type = "BlochSphereRotation"
     /\ Abs(arg.g.angle) < ATOL
     /\ arg.g.phase = 0)
        => ret = [raised |-> None, value |-> <<>>]

\* A rotation by a small angle that is not 0, about an axis that is none of x, y, z,
\* has been decomposed to the empty list
SmallRotationDecomposed ==
    /\ pc = "decompose"
    /\ arg.g.type = "BlochSphereRotation"
    /\ arg.g.angle = ATOL - 1
    /\ arg.g.phase = 0
    /\ arg.g.axis = Axis(ArrayLike(1, -1, 1))
    /\ ret.raised = None
    /\ ret.value = <<>>

(***************************************************************************)
(* Properties of the generators                                            *)
(***************************************************************************)
\* C7: for every node a registered generator produced, node.generator(*node.arguments)
\* succeeds and returns a node equal (==) to the original
GeneratorRoundTrip ==
    pc = "regenerate" => (ret.raised = None /\ NodeEq(ret.value, arg.node))

\* A rotation generated with an angle its constructor normalized has been regenerated
RotationRegenerated ==
    /\ pc = "regenerate"
    /\ arg.node.type = "BlochSphereRotation"
    /\ arg.node.generator = "Ry"
    /\ arg.node.arguments.tuple = <<Qubit(1), Float(3 * HALF_PI)>>
    /\ arg.node.angle = -HALF_PI
    /\ ret.raised = None
    /\ ret.value = arg.node

\* C8: for every call the wrapped function accepts, positional, keyword or mixed, the
\* wrapper returns a node whose generator is the wrapper and whose arguments hold one
\* value per declared parameter, in declaration order, each the value the caller
\* bound to that parameter
ArgumentsInDeclarationOrder ==
    (pc = "generate" /\ CallWrapped(arg.gen, arg.args, arg.kwargs).raised = None)
        => /\ ret.raised = None
           /\ ret.value.generator = arg.gen
           /\ ~ret.value.arguments.isNone
           /\ LET params == Parameters(arg.gen)
                  stored == ret.value.arguments.tuple
              IN  /\ Len(stored) = Len(params)
                  /\ \A i \in 1..Len(params) :
                        stored[i] = IF params[i] \in DOMAIN arg.kwargs
                                    THEN arg.kwargs[params[i]]
                                    ELSE arg.args[i]

\* A gate generator has been called with q positional and theta by keyword
MixedCallGenerated ==
    /\ pc = "generate"
    /\ arg.gen = "Rz"
    /\ arg.args = <<Qubit(1)>>
    /\ DOMAIN arg.kwargs = {"theta"}
    /\ ret.raised = None
    /\ ret.value.arguments.tuple = <<Qubit(1), arg.kwargs["theta"]>>

(***************************************************************************)
(* Properties of accept                                                    *)
(***************************************************************************)
\* The subtype-specific hook of a Gate subtype
GateHook(type) ==
    IF type = "BlochSphereRotation" THEN "visit_bloch_sphere_rotation"
    ELSE IF type = "MatrixGate" THEN "visit_matrix_gate"
    ELSE "visit_controlled_gate"

\* C9: accept on a BlochSphereRotation, MatrixGate or ControlledGate calls visit_gate
\* once and then the subtype's hook once, and returns that hook's result; accept on
\* any other node calls that node's own hook only, never visit_gate
GateVisitedThenSubtype ==
    pc = "accept"
        => IF arg.node.type \in {"BlochSphereRotation", "MatrixGate", "ControlledGate"}
           THEN /\ visited = <<[hook |-> "visit_gate", node |-> arg.node],
                               [hook |-> GateHook(arg.node.type), node |-> arg.node]>>
                /\ ret = [raised |-> None,
                          value |-> VisitResult(arg.visitor, GateHook(arg.node.type))]
           ELSE /\ Len(visited) = 1
                /\ visited[1].node = arg.node
                /\ visited[1].hook \notin
                      {"visit_gate", "visit_bloch_sphere_rotation", "visit_matrix_gate",
                       "visit_controlled_gate"}
                /\ ret = [raised |-> None,
                          value |-> VisitResult(arg.visitor, visited[1].hook)]

\* A visitor subclass has visited a ControlledGate
ControlledGateVisited ==
    /\ pc = "accept"
    /\ arg.node.type = "ControlledGate"
    /\ arg.visitor > 0
    /\ Len(visited) = 2
    /\ ret.value.hook = "visit_controlled_gate"

(***************************************************************************)
(* Properties of MatrixGate construction                                   *)
(***************************************************************************)
\* C10: MatrixGate construction fails exactly when fewer than 2 operands are given,
\* or an operand is repeated, or the matrix shape is not (2^n, 2^n) for n operands; one
\* operand is rejected for the operand count, and a (2, 2) matrix with 2 distinct
\* operands for its shape
MatrixGateConstructionErrors ==
    pc = "MatrixGate"
        => LET n == Len(arg.operands)
               repeated == \E i \in 1..n : \E j \in (i + 1)..n :
                               arg.operands[i] = arg.operands[j]
           IN  /\ (ret.raised # None)
                      <=> (n < 2 \/ repeated \/ arg.matrix.shape # <<2 ^ n, 2 ^ n>>)
               /\ n < 2 =>
                      ret.raised = "ValueError: for 1q gates, please use BlochSphereRotation"
               /\ (n = 2 /\ ~repeated /\ arg.matrix.shape = <<2, 2>>) =>
                      ret.raised = "ValueError: incorrect matrix shape"
               /\ ret.raised = None =>
                      (ret.value.matrix = arg.matrix /\ ret.value.operands = arg.operands)

\* A (2, 2) matrix with two distinct operands has been rejected for its shape
ShapeMismatchRejected ==
    /\ pc = "MatrixGate"
    /\ Len(arg.operands) = 2
    /\ arg.operands[1] # arg.operands[2]
    /\ arg.matrix.shape = <<2, 2>>
    /\ ret.raised = "ValueError: incorrect matrix shape"

(***************************************************************************)
(* Properties of ControlledGate construction                               *)
(***************************************************************************)
RECURSIVE OperandQubits(_)
\* The qubits a gate acts on: the qubit of a rotation, the operands of a MatrixGate,
\* the control qubit of a ControlledGate and, recursively, the qubits of its target
OperandQubits(g) ==
    IF g.type = "BlochSphereRotation" THEN {g.qubit}
    ELSE IF g.type = "MatrixGate" THEN {g.operands[i] : i \in 1..Len(g.operands)}
    ELSE {g.control_qubit} \cup OperandQubits(g.target_gate)

RECURSIVE NestingDepth(_)
\* The number of ControlledGates nested in a gate
NestingDepth(g) ==
    IF g.type = "ControlledGate" THEN 1 + NestingDepth(g.target_gate) ELSE 0

\* C11: ControlledGate construction fails exactly when the control qubit is among the
\* qubit operands of the target gate, those of a nested ControlledGate included; every
\* ControlledGate constructed has pairwise distinct qubits in get_qubit_operands()
ControlledGateDistinctQubits ==
    pc = "ControlledGate"
        => /\ (ret.raised # None) <=> (arg.control_qubit \in OperandQubits(arg.target_gate))
           /\ ret.raised # None =>
                  ret.raised = "ValueError: control and target qubit cannot be the same"
           /\ ret.raised = None =>
                  LET ops == get_qubit_operands(ret.value)
                  IN  /\ ops[1] = arg.control_qubit
                      /\ \A i \in 1..Len(ops) : \A j \in (i + 1)..Len(ops) : ops[i] # ops[j]

\* A control qubit that is the control of the ControlledGate nested in the target,
\* and not the target's own control, has been rejected
NestedControlRejected ==
    /\ pc = "ControlledGate"
    /\ NestingDepth(arg.target_gate) = 2
    /\ arg.control_qubit # arg.target_gate.control_qubit
    /\ arg.control_qubit = arg.target_gate.target_gate.control_qubit
    /\ ret.raised = "ValueError: control and target qubit cannot be the same"

(***************************************************************************)
(* Properties of equality                                                  *)
(***************************************************************************)
\* C12: two BlochSphereRotations compare equal if and only if they act on the same
\* qubit, their phases match within ATOL, and either the axes match and the angles
\* match, or the axes are opposite and the angles are opposite; rotations on different
\* qubits compare unequal
RotationsEqualIff ==
    (/\ pc = "eq"
     /\ arg.self.type = "BlochSphereRotation"
     /\ arg.other.type = "BlochSphereRotation")
        => LET a == arg.self
               b == arg.other
               same == a.axis.value = b.axis.value /\ Abs(a.angle - b.angle) < ATOL
               opposite == /\ \A i \in 1..3 : a.axis.value[i] = -b.axis.value[i]
                           /\ Abs(a.angle + b.angle) < ATOL
           IN  /\ ret.value = (/\ a.qubit = b.qubit
                               /\ Abs(a.phase - b.phase) <= ATOL
                               /\ (same \/ opposite))
               /\ a.qubit # b.qubit => ret.value = FALSE

\* Two rotations with opposite axes and opposite angles, on the same qubit, have
\* compared equal
OppositeRotationsEqual ==
    /\ pc = "eq"
    /\ arg.self.type = "BlochSphereRotation"
    /\ arg.other.type = "BlochSphereRotation"
    /\ arg.self.qubit = arg.other.qubit
    /\ arg.self.axis.value = <<Scale, 0, 0>>
    /\ arg.other.axis.value = <<-Scale, 0, 0>>
    /\ arg.self.angle = -arg.other.angle
    /\ ret.value = TRUE

\* The node without its generator and arguments
Anonymous(node) == [node EXCEPT !.generator = None, !.arguments = NoArguments]

\* The fields == compares: qubit, axis, angle, phase of a rotation; qubit and axis of
\* a Measure; qubit of a Reset
ComparedFields(node) ==
    IF node.type = "BlochSphereRotation"
    THEN <<node.type, node.qubit, node.axis, node.angle, node.phase>>
    ELSE IF node.type = "Measure" THEN <<node.type, node.qubit, node.axis>>
    ELSE <<node.type, node.qubit>>

\* C13: the generator and the arguments of a BlochSphereRotation, a Measure or a Reset
\* never affect ==: the result is the one for the same two nodes without them, and
\* two nodes that agree on their compared fields are equal whatever they carry
MetadataIgnoredByEq ==
    (/\ pc = "eq"
     /\ arg.self.type \in {"BlochSphereRotation", "Measure", "Reset"}
     /\ arg.other.type \in {"BlochSphereRotation", "Measure", "Reset"})
        => /\ ret.value = Eq(Anonymous(arg.self), Anonymous(arg.other))
           /\ ComparedFields(arg.self) = ComparedFields(arg.other) => ret.value = TRUE

\* A Measure from a generator and an anonymous Measure of the same qubit and axis,
\* but another bit, have compared equal
GeneratedEqualsAnonymous ==
    /\ pc = "eq"
    /\ arg.self.type = "Measure"
    /\ arg.other.type = "Measure"
    /\ arg.self.generator = "measure_z"
    /\ arg.other.generator = None
    /\ arg.self.bit # arg.other.bit
    /\ ComparedFields(arg.self) = ComparedFields(arg.other)
    /\ ret.value = TRUE

\* C14: equality of two Axis values compares their normalized components within ATOL:
\* two Axis objects whose components differ by less than ATOL compare equal, and two
\* that differ by more in a component compare unequal
AxisEqualWithinATOL ==
    (pc = "eq" /\ arg.self.type = "Axis" /\ arg.other.type = "Axis")
        => /\ (\A i \in 1..3 : Abs(arg.self.value[i] - arg.other.value[i]) < ATOL)
                  => ret.value = TRUE
           /\ (\E i \in 1..3 : Abs(arg.self.value[i] - arg.other.value[i]) > ATOL)
                  => ret.value = FALSE

(***************************************************************************)
(* Properties of the IR                                                    *)
(***************************************************************************)
\* The calls that add a statement
AddCalls == {"add_gate", "add_measurement", "add_reset", "add_comment"}

\* C15: each add_gate, add_measurement, add_reset or add_comment call appends
\* exactly its statement at the end of that IR's statements and changes nothing
\* else, no other step changes any statements, and ir == other for two IRs is
\* True iff their statements have the same length and are element-wise equal.
IRAppendsAndComparesElementwise ==
    [][/\ pc' \in AddCalls =>
             /\ Len(statements'[arg'.self]) = Len(statements[arg'.self]) + 1
             /\ statements'[arg'.self][Len(statements'[arg'.self])] = arg'.statement
             /\ \A i \in 1..Len(statements[arg'.self]) :
                   statements'[arg'.self][i] = statements[arg'.self][i]
             /\ \A ir \in IRs \ {arg'.self} : statements'[ir] = statements[ir]
       /\ pc' \notin AddCalls => statements' = statements
       /\ (pc' = "ir_eq" /\ arg'.other.type = "IR") =>
             /\ \E ir \in IRs : arg'.self.statements = statements[ir]
             /\ ret'.value =
                   (/\ Len(arg'.self.statements) = Len(arg'.other.statements)
                    /\ \A i \in 1..Len(arg'.self.statements) :
                          i \in 1..Len(arg'.other.statements)
                              /\ Eq(arg'.self.statements[i], arg'.other.statements[i]))]_vars

\* Two IRs of two statements each, built from different but equal rotations,
\* compare equal
DistinctIRsEqual ==
    /\ pc = "ir_eq"
    /\ arg.other.type = "IR"
    /\ Len(arg.self.statements) = MaxStatements
    /\ arg.self.statements # arg.other.statements
    /\ ret.value = TRUE

(***************************************************************************)
(* Properties of the default measurement generators                        *)
(***************************************************************************)
\* C16: measure(q, b) and measure_z(q, b) succeed for every Qubit q and Bit b and
\* return a Measure on qubit q and bit b with axis (0, 0, 1), whose generator is
\* the called generator and whose arguments are (q, b).
MeasureGeneratorsSucceed ==
    (/\ pc = "generate"
     /\ arg.gen \in MeasurementGenerators
     /\ DOMAIN arg.kwargs = {}
     /\ Len(arg.args) = 2
     /\ arg.args[1].type = "Qubit"
     /\ arg.args[2].type = "Bit")
        => /\ ret.raised = None
           /\ ret.value.type = "Measure"
           /\ ret.value.qubit.index = arg.args[1].index
           /\ ret.value.bit = arg.args[2]
           /\ ret.value.axis = Axis(ArrayLike(0, 0, 1))
           /\ ret.value.generator = arg.gen
           /\ ret.value.arguments = Arguments(arg.args)

(***************************************************************************)
(* Properties of the decomposition angles                                  *)
(***************************************************************************)
\* axis[index_a] of a call of get_decomposition_angles
ComponentA == AxisItem(Axis(arg.axis), arg.self.index_a)

\* C17: for an accepted angle, get_decomposition_angles does not raise when
\* a = 0 or a = +-1, and the returned angles satisfy theta1 + theta3 = p; when
\* alpha ~ pi with |a| ~ 1, or in the general branch with |sin(theta2/2)| < ATOL,
\* theta3 = 0 and theta1 = p; when alpha ~ pi with |a| < ATOL, theta2 = pi and
\* theta3 = -theta1.
AnglesSumToP ==
    (pc = "get_decomposition_angles" /\ AngleAccepted(arg.alpha))
        => /\ (ComponentA = 0 \/ Abs(ComponentA) = Scale) => ret.raised = None
           /\ ret.raised = None =>
                 /\ ret.value[1] + ret.value[3]
                       = DecompositionLocals(arg.self, arg.alpha, arg.axis).p
                 /\ (\/ /\ Abs(arg.alpha - PI) < ATOL
                         /\ Abs(ComponentA) >= ATOL
                         /\ Abs(Abs(ComponentA) - Scale) < ATOL
                      \/ /\ Abs(arg.alpha - PI) >= ATOL
                         /\ Abs(Sin(Half(ret.value[2]))) < ATOL)
                       => /\ ret.value[3] = 0
                          /\ ret.value[1]
                                = DecompositionLocals(arg.self, arg.alpha, arg.axis).p
                 /\ (Abs(arg.alpha - PI) < ATOL /\ Abs(ComponentA) < ATOL)
                       => /\ ret.value[2] = PI
                          /\ ret.value[3] = -ret.value[1]

\* A half turn about the axis A returns (pi, 0, 0) or (pi, 2 pi, 0)
HalfTurnAboutA ==
    /\ pc = "get_decomposition_angles"
    /\ Abs(arg.alpha - PI) < ATOL
    /\ Abs(ComponentA) = Scale
    /\ ret.raised = None
    /\ ret.value[1] = PI
    /\ ret.value[2] \in {0, TWO_PI}
    /\ ret.value[3] = 0

(***************************************************************************)
(* Properties of gate equality                                             *)
(***************************************************************************)
\* C18: for two gates g1 and g2, each a BlochSphereRotation, a MatrixGate or a
\* ControlledGate, g1 == g2 and g2 == g1 return the same result, and when one of
\* them is a MatrixGate or a ControlledGate that result is the verdict of
\* compare_gates.
GateEqualitySymmetric ==
    (pc = "eq" /\ arg.self.type \in GateTypes /\ arg.other.type \in GateTypes)
        => /\ ret.value = Eq(arg.other, arg.self)
           /\ ({arg.self.type, arg.other.type} # {"BlochSphereRotation"})
                 => ret.value = compare_gates(arg.self, arg.other)

====
